---- MODULE Spec2Model ----
(***************************************************************************)
(* lockfree::atomic_bitset (src/atomic-bitset.h): a fixed array of lazily  *)
(* allocated buckets of atomic words.  Each thread runs calls of set,      *)
(* reset(pos), reset() and test(pos); a step of the model is one atomic    *)
(* memory operation of the code together with the thread-local code that   *)
(* follows it.  Atomic operations are interleaved in a single total order. *)
(***************************************************************************)
EXTENDS Integers, Sequences, FiniteSets, TLC

(* ---- instantiation: atomic_bitset<Capacity, 4, uint8_t, MaxTries> ------ *)
Capacity == 2
BitsetWidth == 4
WordBits == 8
MaxTries == 32
NThreads == 2
MaxCalls == 3
MaxSeqCalls == 5
MaxBenchCalls == 4
MaxOobCalls == 3
MaxPos == 63

BucketBits == 2 ^ BitsetWidth
NWords == BucketBits \div WordBits
NULL == 0

(* a pointer value that is neither null nor the address of a BitSetElement *)
WILD == -1

Threads == 1 .. NThreads
Buckets == 0 .. (Capacity - 1)
WordIdx == 0 .. (NWords - 1)

(* positions the calls of the model are made with: two bits of one word,   *)
(* a bit of the other word of bucket 0 and the first bit of bucket 1.      *)
Positions == {5, 6, WordBits, BucketBits}

(* positions of concurrent callers: the three that share bucket 0 *)
SharedPositions == {5, 6, WordBits}

(* the first position past the last bucket, and the positions of a caller   *)
(* that passes it                                                           *)
OutOfRange == Capacity * BucketBits
OobPositions == {5, BucketBits, OutOfRange}

(* ---- arithmetic of the word type -------------------------------------- *)
RECURSIVE BitAnd(_, _)
BitAnd(a, b) ==
    IF a = 0 \/ b = 0 THEN 0
    ELSE (a % 2) * (b % 2) + 2 * BitAnd(a \div 2, b \div 2)

RECURSIVE BitOr(_, _)
BitOr(a, b) ==
    IF a = 0 THEN b
    ELSE IF b = 0 THEN a
    ELSE (IF a % 2 = 1 \/ b % 2 = 1 THEN 1 ELSE 0) + 2 * BitOr(a \div 2, b \div 2)

(* the int expression 1 << offset, for the offsets of a word of WordBits bits *)
OneShl(offset) == 2 ^ offset

(* conversion of an int to BitsetWord *)
ToWord(x) == x % (2 ^ WordBits)

(* mutants of fetch_or: an exclusive or, and a store of the mask *)
FetchXor(w, offset) ==
    IF (w \div (2 ^ offset)) % 2 = 1 THEN w - 2 ^ offset ELSE w + 2 ^ offset

FetchOrStore(w, offset) == ToWord(OneShl(offset))

(* std::atomic<BitsetWord>::fetch_or(1 << offset): the new value *)
FetchOr(w, offset) == BitOr(w, ToWord(OneShl(offset)))

(* mutant of fetch_and: a store of the complemented mask *)
FetchAndStore(w, offset) == ToWord(-OneShl(offset) - 1)

(* mutant of fetch_and: the mask is not complemented *)
FetchAndMask(w, offset) == BitAnd(w, ToWord(OneShl(offset)))

(* std::atomic<BitsetWord>::fetch_and(~(1 << offset)): the new value *)
FetchAnd(w, offset) == BitAnd(w, ToWord(-OneShl(offset) - 1))

(* mutant of test: any bit of the word counts *)
WordTestAny(w, offset) == w # 0

(* BitSetElement::test on the loaded word: the word is promoted to int and   *)
(* the & of the two non-negative ints is converted to bool                  *)
WordTest(w, offset) == BitAnd(w, OneShl(offset)) # 0

(* ---- relocate ---------------------------------------------------------- *)
(* mutant of relocate: the bucket id is shifted by one bit too many *)
RelBucketWide(pos) == pos \div (2 ^ (BitsetWidth + 1))

RelBucket(pos) == pos \div (2 ^ BitsetWidth)
RelSub(pos) == BitAnd(pos, BucketBits - 1)
(* mutant of relocate: sub is divided by the bytes of a word, not its bits *)
RelIndexBytes(pos) == RelSub(pos) \div (WordBits \div 8)

RelIndex(pos) == RelSub(pos) \div WordBits

(* mutant of relocate: the offset mask is the word width itself *)
RelOffsetWide(pos) == BitAnd(RelSub(pos), WordBits)

RelOffset(pos) == BitAnd(RelSub(pos), WordBits - 1)

(* what relocate computes from pos: the local sub and the three results *)
RelOut(pos) ==
    [bucket |-> RelBucket(pos), sub |-> RelSub(pos),
     index |-> RelIndex(pos), offset |-> RelOffset(pos)]

relocate(pos) ==
    [bucket |-> RelBucket(pos), index |-> RelIndex(pos), offset |-> RelOffset(pos)]

(* ---- BitSetElement ----------------------------------------------------- *)
ZeroWords == [i \in WordIdx |-> 0]

(* mutant of the constructor: the target bit is not set *)
BitSetElementBlank(cardinality, index, offset) ==
    [cardinality |-> cardinality, words |-> [i \in 0 .. (NWords - 1) |-> 0], live |-> TRUE]

(* mutant of the constructor: the words are not stored to zero first *)
BitSetElementDirty(cardinality, index, offset) ==
    [cardinality |-> cardinality,
     words |-> [i \in WordIdx |->
                  IF i = index /\ offset <= WordBits - 1
                  THEN FetchOr(2 ^ WordBits - 1, offset) ELSE 2 ^ WordBits - 1],
     live |-> TRUE]

(* mutant of the constructor: the tag keeps its default value 0 *)
BitSetElementUntagged(cardinality, index, offset) ==
    [cardinality |-> 0,
     words |-> [i \in WordIdx |->
                  IF i = index /\ offset <= WordBits - 1
                  THEN FetchOr(0, offset) ELSE 0],
     live |-> TRUE]

BitSetElement(cardinality, index, offset) ==
    [cardinality |-> cardinality,
     words |-> [i \in WordIdx |->
                  IF i = index /\ offset <= WordBits - 1
                  THEN FetchOr(0, offset) ELSE 0],
     live |-> TRUE]

VARIABLES
    elements,   \* the slot array: bucket -> NULL or the id of a heap object
    heap,       \* the BitSetElement objects ever allocated, by id
    th,         \* per thread: the call it runs, its locals and its position
    event,      \* the call that returned in the last step, with its status
    budget,     \* calls that may still be made
    last,       \* per position: the calls that last changed it, in return order
    noReset,    \* no reset(pos) and no reset() has been called so far
    one,        \* per position: some set(pos) precedes no reset of pos
    zero,       \* per position: no set(pos) was called, or some reset of pos precedes no set(pos)
    lin,        \* per position: the sequential orders the calls so far admit
    alive,      \* the atomic_bitset object has not been destroyed
    mono,       \* the positions some test returned yes for, and per thread: its test began after one
    calc        \* an evaluation of the address or mask arithmetic: input and result

prog == <<elements, heap, th, alive>>
hist == <<event, budget, last, noReset, one, zero, lin, mono>>
vars == <<elements, heap, th, event, budget, last, noReset, one, zero, lin, alive, mono, calc>>

Idle ==
    [pc |-> "idle", op |-> "none", pos |-> 0, tries |-> 0, cardinality |-> 0,
     bucket |-> 0, index |-> 0, offset |-> 0, newelt |-> NULL, elt |-> NULL,
     i |-> 0, j |-> 0, oob |-> FALSE]

NoEvent == [t |-> 0, op |-> "none", pos |-> 0, ret |-> "none", oob |-> FALSE]

Running(r) == r.pc \notin {"idle", "segv"}
Crashed == \E t \in Threads : th[t].pc = "segv"
AllIdle == \A t \in Threads : th[t].pc = "idle"
CanCall(t) == th[t].pc = "idle" /\ budget > 0 /\ ~Crashed /\ alive
At(t, label) == th[t].pc = label /\ ~Crashed

(* ---- the record of the calls made -------------------------------------- *)
(* does call r write or read the bit at position p *)
Touches(r, p) == r.op = "reset_all" \/ (r.op \in {"set", "reset", "test"} /\ r.pos = p)
Pending(tt, p) == {t \in Threads : Running(tt[t]) /\ Touches(tt[t], p)}

(* one more pending call takes effect in a sequential order *)
LinTake(tt, c, t) ==
    [val |-> CASE tt[t].op = "set" -> TRUE
               [] tt[t].op = "test" -> c.val
               [] OTHER -> FALSE,
     done |-> c.done \cup {<<t, IF tt[t].op # "test" THEN "success"
                                ELSE IF c.val THEN "yes" ELSE "no">>}]

LinOne(tt, p, S) ==
    S \cup UNION { { LinTake(tt, c, t) :
                      t \in {u \in Pending(tt, p) : \A d \in c.done : d[1] # u} } :
                    c \in S }

RECURSIVE LinClose(_, _, _, _)
LinClose(tt, p, S, n) == IF n = 0 THEN S ELSE LinClose(tt, p, LinOne(tt, p, S), n - 1)

(* the orders left when thread t returns status ret *)
LinReturn(S, t, ret) ==
    { [c EXCEPT !.done = c.done \ {<<t, ret>>}] : c \in {d \in S : <<t, ret>> \in d.done} }

(* the successful calls that last changed a position, oldest first *)
SetLast == {"set", "set_set", "set_reset_set"}

LastAfter(k, op) ==
    CASE op = "set" -> IF k = "set_reset" THEN "set_reset_set"
                       ELSE IF k \in SetLast THEN "set_set" ELSE "set"
      [] op = "reset" -> IF k \in SetLast THEN "set_reset" ELSE "reset"
      [] OTHER -> "reset_all"

(* thread t enters call r *)
Invoke(t, r) ==
    /\ th' = [th EXCEPT ![t] = r]
    /\ event' = NoEvent
    /\ budget' = budget - 1
    /\ last' = last
    /\ noReset' = (noReset /\ r.op \notin {"reset", "reset_all"})
    /\ one' = [p \in Positions |->
                 CASE r.op = "set" /\ r.pos = p -> TRUE
                   [] r.op \in {"reset", "reset_all"} /\ Touches(r, p) ->
                        \E u \in Pending(th, p) : th[u].op = "set"
                   [] OTHER -> one[p]]
    /\ zero' = [p \in Positions |->
                 CASE r.op = "set" /\ r.pos = p ->
                        \E u \in Pending(th, p) : th[u].op \in {"reset", "reset_all"}
                   [] r.op \in {"reset", "reset_all"} /\ Touches(r, p) -> TRUE
                   [] OTHER -> zero[p]]
    /\ lin' = [p \in Positions |->
                 IF Touches(r, p) THEN LinClose(th', p, lin[p], NThreads) ELSE lin[p]]
    /\ mono' = [mono EXCEPT !.after[t] = (r.op = "test" /\ r.pos \in mono.seen)]
    /\ UNCHANGED <<alive, calc>>

(* thread t moves on inside its call *)
Goto(t, r) ==
    /\ th' = [th EXCEPT ![t] = r]
    /\ event' = NoEvent
    /\ UNCHANGED <<budget, last, noReset, one, zero, lin, alive, mono, calc>>

(* thread t returns status ret from call r *)
Return(t, r, ret) ==
    /\ th' = [th EXCEPT ![t] = Idle]
    /\ event' = [t |-> t, op |-> r.op, pos |-> r.pos, ret |-> ret, oob |-> r.oob]
    /\ last' = [p \in Positions |->
                  IF r.op \in {"set", "reset", "reset_all"} /\ Touches(r, p) /\ ret = "success"
                  THEN LastAfter(last[p], r.op) ELSE last[p]]
    /\ lin' = [p \in Positions |->
                  IF Touches(r, p)
                  THEN LinClose(th', p, LinReturn(lin[p], t, ret), NThreads)
                  ELSE lin[p]]
    /\ mono' = [mono EXCEPT !.seen = IF r.op = "test" /\ ret = "yes" THEN @ \cup {r.pos} ELSE @]
    /\ UNCHANGED <<budget, noReset, one, zero, alive, calc>>

(* thread t reads through a null pointer *)
Segv(t, r) ==
    /\ th' = [th EXCEPT ![t] = [r EXCEPT !.pc = "segv"]]
    /\ event' = NoEvent
    /\ UNCHANGED <<budget, last, noReset, one, zero, lin, alive, mono, calc>>

(* no evaluation of the arithmetic on its own *)
NoCalc == [fn |-> "none", width |-> WordBits, arg |-> 0, out |-> 0]

(* the collection after its constructor, with no call made *)
InitMem ==
    /\ elements = [b \in Buckets |-> NULL]
    /\ heap = << >>
    /\ th = [t \in Threads |-> Idle]
    /\ event = NoEvent
    /\ last = [p \in Positions |-> "none"]
    /\ noReset = TRUE
    /\ one = [p \in Positions |-> FALSE]
    /\ zero = [p \in Positions |-> TRUE]
    /\ lin = [p \in Positions |-> {[val |-> FALSE, done |-> {}]}]
    /\ alive = TRUE
    /\ mono = [seen |-> {}, after |-> [t \in Threads |-> FALSE]]

InitProg == InitMem /\ calc = NoCalc

Init == InitProg /\ budget = MaxCalls

SeqInit == InitProg /\ budget = MaxSeqCalls

(* mutant of the entry: the tag compared is the position, not its bucket id *)
EntryTagPos(op, label, pos) ==
    [Idle EXCEPT !.pc = label, !.op = op, !.pos = pos,
                 !.cardinality = pos,
                 !.bucket = relocate(pos).bucket,
                 !.index = relocate(pos).index,
                 !.offset = relocate(pos).offset]

(* entry of set, reset(pos) and test: the locals and the first relocate *)
Entry(op, label, pos) ==
    [Idle EXCEPT !.pc = label, !.op = op, !.pos = pos,
                 !.cardinality = relocate(pos).bucket,
                 !.bucket = relocate(pos).bucket,
                 !.index = relocate(pos).index,
                 !.offset = relocate(pos).offset]

(* mutant of the tag-mismatch branch: the bucket id is shifted one bit too  *)
(* far before it is relocated                                               *)
RetryShift(r) ==
    [r EXCEPT !.tries = r.tries + 1,
              !.bucket = relocate(r.bucket * (2 ^ (BitsetWidth + 1))).bucket,
              !.index = relocate(r.bucket * (2 ^ (BitsetWidth + 1))).index,
              !.offset = relocate(r.bucket * (2 ^ (BitsetWidth + 1))).offset]

(* the tag-mismatch branch: tries++ and relocate(bucket << BitsetWidth) *)
Retry(r) ==
    [r EXCEPT !.tries = r.tries + 1,
              !.bucket = relocate(r.bucket * (2 ^ BitsetWidth)).bucket,
              !.index = relocate(r.bucket * (2 ^ BitsetWidth)).index,
              !.offset = relocate(r.bucket * (2 ^ BitsetWidth)).offset]

(* ---- the slot array ---------------------------------------------------- *)
(* the values a load of elements[b] may give.  Nothing checks b against     *)
(* Capacity: past the array the load reads other memory, which may hold     *)
(* null, the address of some BitSetElement, or anything else.               *)
SlotRead(b) ==
    IF b \in Buckets THEN {elements[b]}
    ELSE {NULL, WILD} \cup {o \in 1 .. Len(heap) : heap[o].live}

(* the slot array after a store of v to elements[b]; past the array the     *)
(* store lands in other memory                                              *)
SlotWrite(b, v) == IF b \in Buckets THEN [elements EXCEPT ![b] = v] ELSE elements

(* the call's record once it has accessed elements[bucket] *)
Access(r) == [r EXCEPT !.oob = @ \/ r.bucket \notin Buckets]

(* ---- status set(Index pos) --------------------------------------------- *)
(* mutant of the entry of set: a position past the last bucket is refused   *)
(* before the slot array is accessed                                        *)
CallSetChecked(t, pos) ==
    /\ CanCall(t)
    /\ IF relocate(pos).bucket \in Buckets
       THEN Invoke(t, Entry("set", "set43", pos))
       ELSE /\ event' = [t |-> t, op |-> "set", pos |-> pos, ret |-> "failed",
                         oob |-> FALSE]
            /\ budget' = budget - 1
            /\ UNCHANGED <<th, last, noReset, one, zero, lin, alive, mono, calc>>
    /\ UNCHANGED <<elements, heap>>

CallSet(t, pos) ==
    /\ CanCall(t)
    /\ Invoke(t, Entry("set", "set43", pos))
    /\ UNCHANGED <<elements, heap>>

(* the heap after delete newelt (when newelt is not NULL) *)
Delete(h, obj) ==
    IF obj = NULL THEN h
    ELSE [h EXCEPT ![obj] = [cardinality |-> 0, words |-> ZeroWords, live |-> FALSE]]

(* a mismatch in set: the loop condition, then delete newelt and failed *)
SetRetry(t, r, h) ==
    IF Retry(r).tries < MaxTries
    THEN /\ Goto(t, [Retry(r) EXCEPT !.pc = "set43"])
         /\ heap' = h
    ELSE /\ Return(t, r, "failed")
         /\ heap' = Delete(h, r.newelt)

(* elements[bucket].load(), and the branch taken on the value read *)
SetLoad(t) ==
    /\ At(t, "set43")
    /\ \E e \in SlotRead(th[t].bucket) :
         LET r == Access(th[t])
         IN  IF e = NULL
             THEN IF r.newelt = NULL
                  THEN /\ heap' = Append(heap, BitSetElement(r.cardinality, r.index, r.offset))
                       /\ Goto(t, [r EXCEPT !.pc = "set50", !.elt = NULL,
                                            !.newelt = Len(heap) + 1])
                  ELSE /\ heap' = [heap EXCEPT ![r.newelt].words[r.index] =
                                                    FetchOr(@, r.offset)]
                       /\ Goto(t, [r EXCEPT !.pc = "set50", !.elt = NULL])
             ELSE IF e = WILD
                  THEN /\ Segv(t, [r EXCEPT !.elt = e])
                       /\ heap' = heap
                  ELSE IF heap[e].cardinality = r.cardinality
                       THEN /\ Goto(t, [r EXCEPT !.pc = "set65", !.elt = e])
                            /\ heap' = heap
                       ELSE SetRetry(t, [r EXCEPT !.elt = e], heap)
    /\ UNCHANGED elements

(* mutant of the install: a thread that loses it returns without its fetch_or *)
SetCasDrop(t) ==
    /\ At(t, "set50")
    /\ LET r == th[t]
           cur == elements[r.bucket]
       IN  \/ /\ cur = r.elt
              /\ elements' = [elements EXCEPT ![r.bucket] = r.newelt]
              /\ Return(t, r, "success")
              /\ heap' = heap
           \/ /\ elements' = elements
              /\ heap' = heap
              /\ IF cur = NULL THEN Segv(t, r) ELSE Return(t, r, "success")

(* mutant of the install: a plain store of the candidate to the slot *)
SetCasStore(t) ==
    /\ At(t, "set50")
    /\ LET r == th[t]
       IN  /\ elements' = [elements EXCEPT ![r.bucket] = r.newelt]
           /\ Return(t, r, "success")
           /\ heap' = heap

(* elements[bucket].compare_exchange_weak(elt, newelt): it may fail although  *)
(* the slot still holds elt; elt then stays NULL and elt->cardinality reads   *)
(* through a null pointer.                                                    *)
SetCas(t) ==
    /\ At(t, "set50")
    /\ \E cur \in SlotRead(th[t].bucket) :
         LET r == Access(th[t])
         IN  \/ /\ cur = r.elt
                /\ elements' = SlotWrite(r.bucket, r.newelt)
                /\ Return(t, r, "success")
                /\ heap' = heap
             \/ /\ elements' = elements
                /\ IF cur \in {NULL, WILD}
                   THEN /\ Segv(t, [r EXCEPT !.elt = cur])
                        /\ heap' = heap
                   ELSE IF heap[cur].cardinality = r.cardinality
                        THEN /\ Goto(t, [r EXCEPT !.pc = "set55", !.elt = cur])
                             /\ heap' = heap
                        ELSE SetRetry(t, [r EXCEPT !.elt = cur],
                                      [heap EXCEPT ![r.newelt].words[r.index] =
                                                       FetchAnd(@, r.offset)])

(* mutant of line 55: a thread that lost the install sets the bit in its    *)
(* own candidate                                                            *)
SetOrOwn(t) ==
    /\ (At(t, "set55") \/ At(t, "set65"))
    /\ LET r == th[t]
           obj == IF r.pc = "set55" THEN r.newelt ELSE r.elt
       IN  /\ heap' = [heap EXCEPT ![obj].words[r.index] = FetchOr(@, r.offset)]
           /\ Return(t, r, "success")
    /\ UNCHANGED elements

(* elt->words[index].fetch_or(1 << offset) and elt->set(index, offset) *)
SetOr(t) ==
    /\ (At(t, "set55") \/ At(t, "set65"))
    /\ LET r == th[t]
       IN  /\ heap' = [heap EXCEPT ![r.elt].words[r.index] = FetchOr(@, r.offset)]
           /\ Return(t, r, "success")
    /\ UNCHANGED elements

(* ---- status reset(Index pos) ------------------------------------------- *)
CallReset(t, pos) ==
    /\ CanCall(t)
    /\ Invoke(t, Entry("reset", "rst103", pos))
    /\ UNCHANGED <<elements, heap>>

(* mutant of reset(pos): on an empty slot it installs a bucket of zero words *)
ResetLoadAlloc(t) ==
    /\ At(t, "rst103")
    /\ \E val \in SlotRead(th[t].bucket) :
         LET r == Access(th[t])
         IN  IF val = NULL
             THEN /\ heap' = Append(heap, [cardinality |-> r.cardinality,
                                           words |-> ZeroWords, live |-> TRUE])
                  /\ elements' = SlotWrite(r.bucket, Len(heap) + 1)
                  /\ Return(t, r, "success")
             ELSE /\ UNCHANGED <<elements, heap>>
                  /\ IF val = WILD THEN Segv(t, [r EXCEPT !.elt = val])
                     ELSE IF heap[val].cardinality = r.cardinality
                          THEN Goto(t, [r EXCEPT !.pc = "rst107", !.elt = val])
                          ELSE IF Retry(r).tries < MaxTries
                               THEN Goto(t, [Retry(r) EXCEPT !.pc = "rst103", !.elt = val])
                               ELSE Return(t, r, "not_found")

ResetLoad(t) ==
    /\ At(t, "rst103")
    /\ \E val \in SlotRead(th[t].bucket) :
         LET r == Access(th[t])
         IN  IF val = NULL THEN Return(t, r, "success")
             ELSE IF val = WILD THEN Segv(t, [r EXCEPT !.elt = val])
             ELSE IF heap[val].cardinality = r.cardinality
                  THEN Goto(t, [r EXCEPT !.pc = "rst107", !.elt = val])
                  ELSE IF Retry(r).tries < MaxTries
                       THEN Goto(t, [Retry(r) EXCEPT !.pc = "rst103", !.elt = val])
                       ELSE Return(t, r, "not_found")
    /\ UNCHANGED <<elements, heap>>

(* mutant of reset(pos): the bucket is released and its slot emptied *)
ResetAndRelease(t) ==
    /\ At(t, "rst107")
    /\ LET r == th[t]
       IN  /\ heap' = [heap EXCEPT ![r.elt].live = FALSE]
           /\ elements' = [elements EXCEPT ![r.bucket] = NULL]
           /\ Return(t, r, "success")

ResetAnd(t) ==
    /\ At(t, "rst107")
    /\ LET r == th[t]
       IN  /\ heap' = [heap EXCEPT ![r.elt].words[r.index] = FetchAnd(@, r.offset)]
           /\ Return(t, r, "success")
    /\ UNCHANGED elements

(* ---- status test(Index pos) -------------------------------------------- *)
CallTest(t, pos) ==
    /\ CanCall(t)
    /\ Invoke(t, Entry("test", "tst128", pos))
    /\ UNCHANGED <<elements, heap>>

(* mutant of test: when the tries are used up it returns failed, as set does *)
TestLoadFailed(t) ==
    /\ At(t, "tst128")
    /\ \E val \in SlotRead(th[t].bucket) :
         LET r == Access(th[t])
         IN  IF val = NULL THEN Return(t, r, "no")
             ELSE IF val = WILD THEN Segv(t, [r EXCEPT !.elt = val])
             ELSE IF heap[val].cardinality = r.cardinality
                  THEN Goto(t, [r EXCEPT !.pc = "tst132", !.elt = val])
                  ELSE IF Retry(r).tries < MaxTries
                       THEN Goto(t, [Retry(r) EXCEPT !.pc = "tst128", !.elt = val])
                       ELSE Return(t, r, "failed")
    /\ UNCHANGED <<elements, heap>>

TestLoad(t) ==
    /\ At(t, "tst128")
    /\ \E val \in SlotRead(th[t].bucket) :
         LET r == Access(th[t])
         IN  IF val = NULL THEN Return(t, r, "no")
             ELSE IF val = WILD THEN Segv(t, [r EXCEPT !.elt = val])
             ELSE IF heap[val].cardinality = r.cardinality
                  THEN Goto(t, [r EXCEPT !.pc = "tst132", !.elt = val])
                  ELSE IF Retry(r).tries < MaxTries
                       THEN Goto(t, [Retry(r) EXCEPT !.pc = "tst128", !.elt = val])
                       ELSE Return(t, r, "not_found")
    /\ UNCHANGED <<elements, heap>>

(* mutant of test: the bit that is read is cleared *)
TestWordClear(t) ==
    /\ At(t, "tst132")
    /\ LET r == th[t]
       IN  /\ heap' = [heap EXCEPT ![r.elt].words[r.index] = FetchAnd(@, r.offset)]
           /\ Return(t, r, IF WordTest(heap[r.elt].words[r.index], r.offset)
                           THEN "yes" ELSE "no")
    /\ UNCHANGED elements

TestWord(t) ==
    /\ At(t, "tst132")
    /\ LET r == th[t]
       IN  Return(t, r, IF WordTest(heap[r.elt].words[r.index], r.offset)
                        THEN "yes" ELSE "no")
    /\ UNCHANGED <<elements, heap>>

(* ---- status reset() ---------------------------------------------------- *)
CallResetAll(t) ==
    /\ CanCall(t)
    /\ Invoke(t, [Idle EXCEPT !.pc = "blk83", !.op = "reset_all"])
    /\ UNCHANGED <<elements, heap>>

(* mutant of the outer loop: reset() returns after the first slot *)
NextSlotOnce(t, r) == Return(t, r, "success")

(* the outer loop's i++ and condition, and the return after the loop *)
NextSlot(t, r) ==
    IF r.i + 1 < Capacity
    THEN Goto(t, [r EXCEPT !.pc = "blk83", !.i = r.i + 1, !.j = 0, !.elt = NULL])
    ELSE Return(t, r, "success")

(* mutant of reset(): an empty slot gets a bucket of zero words *)
ResetAllLoadAlloc(t) ==
    /\ At(t, "blk83")
    /\ LET r == th[t]
           element == elements[r.i]
       IN  IF element # NULL /\ 0 < NWords
           THEN /\ Goto(t, [r EXCEPT !.pc = "blk86", !.elt = element, !.j = 0])
                /\ UNCHANGED <<elements, heap>>
           ELSE /\ heap' = Append(heap, [cardinality |-> r.i, words |-> ZeroWords,
                                         live |-> TRUE])
                /\ elements' = [elements EXCEPT ![r.i] = Len(heap) + 1]
                /\ NextSlot(t, r)

ResetAllLoad(t) ==
    /\ At(t, "blk83")
    /\ LET r == th[t]
           element == elements[r.i]
       IN  IF element # NULL /\ 0 < NWords
           THEN Goto(t, [r EXCEPT !.pc = "blk86", !.elt = element, !.j = 0])
           ELSE NextSlot(t, r)
    /\ UNCHANGED <<elements, heap>>

(* mutant of the inner loop: the last word of a bucket is not stored *)
ResetAllStoreShort(t) ==
    /\ At(t, "blk86")
    /\ LET r == th[t]
       IN  /\ heap' = [heap EXCEPT ![r.elt].words[r.j] = 0]
           /\ IF r.j + 1 < NWords - 1
              THEN Goto(t, [r EXCEPT !.j = r.j + 1])
              ELSE IF r.i + 1 < Capacity
                   THEN Goto(t, [r EXCEPT !.pc = "blk83", !.i = r.i + 1, !.j = 0,
                                          !.elt = NULL])
                   ELSE Return(t, r, "success")
    /\ UNCHANGED elements

ResetAllStore(t) ==
    /\ At(t, "blk86")
    /\ LET r == th[t]
       IN  /\ heap' = [heap EXCEPT ![r.elt].words[r.j] = 0]
           /\ IF r.j + 1 < NWords THEN Goto(t, [r EXCEPT !.j = r.j + 1]) ELSE NextSlot(t, r)
    /\ UNCHANGED elements

(* ---- ~atomic_bitset() --------------------------------------------------- *)
(* the class declares no destructor: the implicit one ends the lifetime of  *)
(* the slot array and releases nothing the slots point to                   *)
Destroy ==
    /\ AllIdle /\ alive
    /\ alive' = FALSE
    /\ event' = NoEvent
    /\ UNCHANGED <<elements, heap, th, budget, last, noReset, one, zero, lin, mono, calc>>

(* ---- the threads -------------------------------------------------------- *)
(* the next atomic operation of the call thread t is in *)
Proceed(t) ==
    \/ SetLoad(t)
    \/ SetCas(t)
    \/ SetOr(t)
    \/ ResetLoad(t)
    \/ ResetAnd(t)
    \/ TestLoad(t)
    \/ TestWord(t)
    \/ ResetAllLoad(t)
    \/ ResetAllStore(t)

Step(t, P) ==
    \/ \E pos \in P : CallSet(t, pos)
    \/ \E pos \in P : CallReset(t, pos)
    \/ \E pos \in P : CallTest(t, pos)
    \/ CallResetAll(t)
    \/ SetLoad(t)
    \/ SetCas(t)
    \/ SetOr(t)
    \/ ResetLoad(t)
    \/ ResetAnd(t)
    \/ TestLoad(t)
    \/ TestWord(t)
    \/ ResetAllLoad(t)
    \/ ResetAllStore(t)

Next == \E t \in Threads : Step(t, SharedPositions)

Spec == Init /\ [][Next]_vars

(* one caller: the calls follow one another *)
SeqNext == Step(1, Positions)

SeqSpec == SeqInit /\ [][SeqNext]_vars

(* a thread that is inside a call is scheduled again *)
FairSpec == Spec /\ \A t \in Threads : WF_vars(Proceed(t))

(* the collection is destroyed once its callers are done *)
LifeNext == Next \/ Destroy

LifeSpec == Init /\ [][LifeNext]_vars

(* the stages of the sample: sets and tests of one stage run concurrently,  *)
(* a stage begins when the calls of the one before it have returned, and    *)
(* reset() is called between stages by the main thread                      *)
SameStage(op) == \A u \in Threads : th[u].pc = "idle" \/ th[u].op = op

BenchStep(t) ==
    \/ \E pos \in SharedPositions : SameStage("set") /\ CallSet(t, pos)
    \/ \E pos \in SharedPositions : SameStage("test") /\ CallTest(t, pos)
    \/ t = 1 /\ AllIdle /\ CallResetAll(t)
    \/ SetLoad(t)
    \/ SetCas(t)
    \/ SetOr(t)
    \/ TestLoad(t)
    \/ TestWord(t)
    \/ ResetAllLoad(t)
    \/ ResetAllStore(t)

BenchInit == InitProg /\ budget = MaxBenchCalls

BenchNext == \E t \in Threads : BenchStep(t)

BenchSpec == BenchInit /\ [][BenchNext]_vars

(* one caller that also passes a position past the last bucket *)
OobInit == InitProg /\ budget = MaxOobCalls

OobNext == Step(1, OobPositions)

OobSpec == OobInit /\ [][OobNext]_vars

(* ---- relocate on its own ------------------------------------------------ *)
(* relocate(pos, ...) for each pos up to MaxPos, and the recomputation      *)
(* relocate(bucket << BitsetWidth, ...) of a retry from its result          *)
RelInit ==
    /\ InitMem /\ budget = 0
    /\ \E pos \in 0 .. MaxPos :
          calc = [fn |-> "pos", width |-> WordBits, arg |-> pos, out |-> RelOut(0)]

Relocate ==
    /\ calc.fn = "pos"
    /\ calc' = [calc EXCEPT !.fn = "relocate", !.out = RelOut(calc.arg)]
    /\ UNCHANGED <<elements, heap, th, event, budget, last, noReset, one, zero, lin, alive, mono>>

RelocateAgain ==
    /\ calc.fn = "relocate"
    /\ calc' = [calc EXCEPT !.fn = "retry",
                            !.out = RelOut(calc.out.bucket * (2 ^ BitsetWidth))]
    /\ UNCHANGED <<elements, heap, th, event, budget, last, noReset, one, zero, lin, alive, mono>>

RelNext == Relocate \/ RelocateAgain

RelSpec == RelInit /\ [][RelNext]_vars

(* ---- the masks on their own, for each word type ------------------------ *)
(* A word and an int are written as the set of the bits that are 1, an int  *)
(* in two's complement on IntBits bits.                                     *)
IntBits == 32
WordWidths == {8, 16, 32, 64}

(* the int expression 1 << offset: the literal 1 is an int whatever the     *)
(* word type is; a shift by IntBits or more is undefined, and the builds    *)
(* either take the shift count modulo IntBits or shift the bit out          *)
ShlInt(offset) ==
    IF offset < IntBits THEN {{offset}} ELSE {{offset % IntBits}, {}}

(* the int expression ~x *)
NotInt(x) == (0 .. IntBits - 1) \ x

(* conversion of an int to an unsigned word of w bits: the low bits for a   *)
(* word no wider than int, the sign bit repeated for a wider one            *)
IntToWord(x, w) ==
    IF w <= IntBits THEN x \cap (0 .. w - 1)
    ELSE x \cup (IF (IntBits - 1) \in x THEN IntBits .. w - 1 ELSE {})

(* the operands of word & int brought to their common type: a word narrower *)
(* than int is promoted to int, otherwise the int is converted to the word  *)
WordAndInt(word, x, w) ==
    word \cap (IF w < IntBits THEN x ELSE IntToWord(x, w))

(* the words the masks are applied to: none, all or one of the bits set,    *)
(* and all but one                                                          *)
MaskWords(w, offset) == {{}, 0 .. w - 1, {offset}, (0 .. w - 1) \ {offset}}

MaskInit ==
    /\ InitMem /\ budget = 0
    /\ \E w \in WordWidths : \E offset \in 0 .. w - 1 : \E word \in MaskWords(w, offset) :
          calc = [fn |-> "word", width |-> w, arg |-> offset,
                  out |-> [old |-> word, new |-> word, ret |-> "none"]]

(* BitSetElement::set: words[index].fetch_or(1 << offset) *)
MaskSet ==
    /\ calc.fn = "word"
    /\ \E x \in ShlInt(calc.arg) :
          calc' = [calc EXCEPT !.fn = "set",
                               !.out.new = calc.out.old \cup IntToWord(x, calc.width)]
    /\ UNCHANGED <<elements, heap, th, event, budget, last, noReset, one, zero, lin, alive, mono>>

(* BitSetElement::reset: words[index].fetch_and(~(1 << offset)) *)
MaskReset ==
    /\ calc.fn = "word"
    /\ \E x \in ShlInt(calc.arg) :
          calc' = [calc EXCEPT !.fn = "reset",
                               !.out.new = calc.out.old \cap IntToWord(NotInt(x), calc.width)]
    /\ UNCHANGED <<elements, heap, th, event, budget, last, noReset, one, zero, lin, alive, mono>>

(* BitSetElement::test: words[index].load() & (1 << offset), as a bool *)
MaskTest ==
    /\ calc.fn = "word"
    /\ \E x \in ShlInt(calc.arg) :
          calc' = [calc EXCEPT !.fn = "test",
                               !.out.ret = IF WordAndInt(calc.out.old, x, calc.width) # {}
                                           THEN "yes" ELSE "no"]
    /\ UNCHANGED <<elements, heap, th, event, budget, last, noReset, one, zero, lin, alive, mono>>

(* the constructor: the words are zeroed, then the bit of a valid offset is *)
(* set with fetch_or(1 << offset)                                           *)
MaskConstruct ==
    /\ calc.fn = "word"
    /\ \E x \in ShlInt(calc.arg) :
          calc' = [calc EXCEPT !.fn = "construct",
                               !.out.new = IF calc.arg <= calc.width - 1
                                           THEN IntToWord(x, calc.width) ELSE {}]
    /\ UNCHANGED <<elements, heap, th, event, budget, last, noReset, one, zero, lin, alive, mono>>

MaskNext == MaskSet \/ MaskReset \/ MaskTest \/ MaskConstruct

MaskSpec == MaskInit /\ [][MaskNext]_vars

(* ======================================================================== *)
(* Properties                                                               *)
(* ======================================================================== *)
(* the bit at position p as the slot array and the words hold it *)
WordAt(b, i) == IF elements[b] = NULL THEN 0 ELSE heap[elements[b]].words[i]
Bit(p) == (WordAt(p \div BucketBits, (p % BucketBits) \div WordBits)
              \div (2 ^ (p % WordBits))) % 2 = 1

(* C1: a test(pos) that follows a set(pos) which returned success, with no  *)
(* reset(pos) and no reset() after it, returns yes.                         *)
C1_SetThenTestYes ==
    (event.op = "test" /\ last[event.pos] \in SetLast) => event.ret = "yes"

C1_Witness ==
    /\ event.op = "test" /\ event.ret = "yes"
    /\ last[event.pos] = "set"

(* C2: a test(pos) that follows a reset(pos), with no set(pos) after it,    *)
(* returns no, whether the bucket was empty or the bit was set or clear.    *)
C2_ResetThenTestNo ==
    (event.op = "test" /\ last[event.pos] \in {"reset", "set_reset"}) => event.ret = "no"

C2_Witness ==
    /\ event.op = "test" /\ event.ret = "no"
    /\ last[event.pos] = "set_reset"
    /\ elements[event.pos \div BucketBits] # NULL

(* C3: while no reset has been called, test(p) returns yes exactly for the  *)
(* positions p that were passed to set.                                     *)
C3_YesExactlyForSetPositions ==
    (noReset /\ event.op = "test") =>
        (event.ret = "yes" <=> last[event.pos] \in SetLast)

C3_Witness ==
    /\ noReset /\ event.op = "test" /\ event.ret = "no"
    /\ last[event.pos] = "none"
    /\ elements[event.pos \div BucketBits] # NULL

(* C4: a set(pos) made when the last change of pos was a successful set(pos) *)
(* changes no slot, no identity tag and no word, returns success and leaves *)
(* the bit set.                                                             *)
C4_SetIdempotent ==
    [][\A t \in Threads : \A p \in Positions :
          (th[t].op = "set" /\ th[t].pos = p /\ Running(th[t]) /\ last[p] \in SetLast) =>
              /\ elements' = elements
              /\ heap' = heap
              /\ Bit(p)'
              /\ (event'.t = t => event'.ret = "success")]_vars

C4_Witness ==
    /\ event.op = "set" /\ event.ret = "success"
    /\ last[event.pos] = "set_set"
    /\ Bit(event.pos)

(* C5: in set(pos); reset(pos); set(pos) the second set installs no bucket  *)
(* and allocates none, and a test(pos) after it returns yes.                *)
C5_RoundTrip ==
    [][/\ \A t \in Threads :
             (th[t].op = "set" /\ Running(th[t]) /\ last[th[t].pos] = "set_reset") =>
                 (elements' = elements /\ Len(heap') = Len(heap))
       /\ (event'.op = "test" /\ last'[event'.pos] = "set_reset_set") =>
             event'.ret = "yes"]_vars

C5_Witness ==
    /\ event.op = "test" /\ event.ret = "yes"
    /\ last[event.pos] = "set_reset_set"
    /\ Len(heap) = 1

(* C6: when reset() returns every word of every installed bucket is zero,   *)
(* and a test(pos) that follows it returns no.                              *)
C6_BulkClear ==
    /\ event.op = "reset_all" =>
          \A b \in Buckets : \A i \in WordIdx : WordAt(b, i) = 0
    /\ (event.op = "test" /\ last[event.pos] = "reset_all") => event.ret = "no"

C6_Witness ==
    /\ event.op = "test" /\ event.ret = "no"
    /\ event.pos = BucketBits
    /\ last[event.pos] = "reset_all"
    /\ elements[1] # NULL /\ elements[0] # NULL

(* C7: a step of set(pos) or reset(pos) changes no slot and no word of a    *)
(* bucket other than pos >> BitsetWidth; after set(5), test(5) returns yes  *)
(* and test(6) returns no.                                                  *)
C7_BucketIsolation ==
    [][/\ \A t \in Threads :
             (th[t].op \in {"set", "reset"} /\ Running(th[t]) /\ th'[t] # th[t]) =>
                 \A b \in Buckets \ {th[t].pos \div BucketBits} :
                     /\ elements'[b] = elements[b]
                     /\ \A i \in WordIdx : WordAt(b, i)' = WordAt(b, i)
       /\ (event'.op = "test" /\ last'[5] \in SetLast /\ last'[6] = "none") =>
             /\ event'.pos = 5 => event'.ret = "yes"
             /\ event'.pos = 6 => event'.ret = "no"]_vars

C7_Witness ==
    /\ event.op = "set" /\ event.pos = BucketBits /\ event.ret = "success"
    /\ elements[0] # NULL /\ elements[1] # NULL
    /\ Bit(5) /\ ~Bit(6) /\ Bit(BucketBits)

(* C8: when all calls have returned and none was a reset, each word holds   *)
(* exactly the bits of the positions passed to set, also when the sets ran  *)
(* concurrently on one word.                                                *)
RECURSIVE SumOf(_)
SumOf(S) == IF S = {} THEN 0
            ELSE LET x == CHOOSE y \in S : TRUE IN x + SumOf(S \ {x})

SetBitsOf(b, i) ==
    {2 ^ (p % WordBits) :
        p \in {q \in Positions : /\ q \div BucketBits = b
                                 /\ (q % BucketBits) \div WordBits = i
                                 /\ last[q] \in SetLast}}

C8_NoLostUpdate ==
    (AllIdle /\ noReset) =>
        \A b \in Buckets : \A i \in WordIdx : WordAt(b, i) = SumOf(SetBitsOf(b, i))

C8_Witness ==
    /\ AllIdle /\ noReset
    /\ budget + 2 = MaxCalls
    /\ Len(heap) = 2
    /\ WordAt(0, 0) = 2 ^ 5 + 2 ^ 6

(* C9: when all calls have returned, a bit is set only if some set(pos)     *)
(* did not return before a later reset of the bit began, and clear only if  *)
(* no set(pos) began after every reset of the bit had returned.             *)
C9_BulkResetSerializable ==
    AllIdle => \A p \in Positions : (Bit(p) => one[p]) /\ (~Bit(p) => zero[p])

C9_Witness ==
    /\ AllIdle /\ event.op = "reset_all"
    /\ \E p \in Positions : Bit(p) /\ one[p] /\ zero[p]

(* C10: the statuses returned by the calls on a position, and the value of  *)
(* the bit once all calls have returned, are those of some sequential order *)
(* of the calls that keeps the order of calls that did not overlap.         *)
C10_Linearizable ==
    /\ \A p \in Positions : lin[p] # {}
    /\ AllIdle => \A p \in Positions : \E c \in lin[p] : c.val = Bit(p)

C10_Witness ==
    /\ event.op = "test" /\ event.ret = "yes"
    /\ \E t \in Threads : /\ Running(th[t])
                          /\ th[t].op \in {"reset", "reset_all"}
                          /\ th[t].elt # NULL
                          /\ Touches(th[t], event.pos)

(* C11: after a reset(), when the threads of a stage have called set        *)
(* concurrently and all have returned, test(p) returns yes exactly for the  *)
(* positions p passed to set since the reset(), also when two threads set   *)
(* the same bit or raced to install the same bucket.                        *)
C11_SetsAfterBulkReset ==
    (event.op = "test" /\ ~noReset) =>
        (event.ret = "yes" <=> last[event.pos] \in SetLast)

C11_Witness ==
    /\ event.op = "test" /\ event.ret = "yes"
    /\ ~noReset
    /\ last[event.pos] = "set_set"
    /\ Len(heap) = 2

(* C12: set returns only success or failed, reset(pos) only success or      *)
(* not_found, reset() only success, and test only yes, no or not_found.     *)
C12_StatusVocabulary ==
    /\ event.op = "set" => event.ret \in {"success", "failed"}
    /\ event.op = "reset" => event.ret \in {"success", "not_found"}
    /\ event.op = "reset_all" => event.ret = "success"
    /\ event.op = "test" => event.ret \in {"yes", "no", "not_found"}

C12_Witness ==
    /\ event.op = "set" /\ event.ret = "failed"
    /\ \E o \in 1 .. Len(heap) : heap[o].live

(* C13: every call on a valid position eventually returns, whatever the     *)
(* other threads do, and no call runs more than MaxTries iterations of its  *)
(* retry loop.                                                              *)
C13_EveryCallReturns ==
    /\ [](\A t \in Threads : th[t].tries < MaxTries)
    /\ \A t \in Threads : (th[t].pc # "idle") ~> (th[t].pc = "idle")

(* C14: on valid positions no call finds a bucket whose tag differs from    *)
(* the one it looks for, so no call retries, set never returns failed,      *)
(* reset(pos) and test never return not_found, and every set that returns,  *)
(* a repeated one included, returns success.                                *)
C14_NoMismatchOnValidPositions ==
    /\ \A t \in Threads :
          /\ th[t].tries = 0
          /\ (th[t].op \in {"set", "reset", "test"} /\ th[t].elt # NULL) =>
                heap[th[t].elt].cardinality = th[t].cardinality
    /\ event.ret \notin {"failed", "not_found"}
    /\ event.op = "set" => event.ret = "success"

C14_Witness ==
    /\ event.op = "set" /\ event.ret = "success"
    /\ last[event.pos] = "set_set"
    /\ \E t \in Threads : /\ th[t].op \in {"set", "reset", "test"}
                          /\ th[t].elt # NULL
                          /\ heap[th[t].elt].cardinality = th[t].cardinality

(* C15: a slot changes only from empty to holding a bucket: once it holds   *)
(* one, no step of set, reset(pos) or reset() empties it, replaces the      *)
(* bucket or releases it, however many threads raced to install.            *)
C15_WriteOnceSlots ==
    [][\A b \in Buckets :
          elements[b] # NULL =>
              /\ elements'[b] = elements[b]
              /\ heap'[elements[b]].live]_vars

C15_Witness ==
    /\ event.op = "reset_all"
    /\ elements[0] # NULL
    /\ Len(heap) = 2

(* C16: when a set call returns, every bucket object allocated so far is    *)
(* installed in a slot, destroyed, or the candidate of a set call that has  *)
(* not returned yet: a thread that lost the install has destroyed its       *)
(* candidate before it returns success.                                     *)
C16_NoCandidateOutlivesSet ==
    event.op = "set" =>
        \A o \in 1 .. Len(heap) :
            heap[o].live =>
                \/ \E b \in Buckets : elements[b] = o
                \/ \E t \in Threads : Running(th[t]) /\ th[t].newelt = o

(* C17: set, reset(pos) and test use pos >> BitsetWidth as the index into   *)
(* the slot array without comparing it with Capacity: a call with a         *)
(* position past the last bucket accesses the array out of bounds, and the  *)
(* status it returns, if any, is one of the statuses of valid positions.    *)
C17_OutOfRangeUnchecked ==
    /\ \A t \in Threads :
          th[t].op \in {"set", "reset", "test"} =>
              th[t].bucket = th[t].pos \div (2 ^ BitsetWidth)
    /\ (event.op \in {"set", "reset", "test"} /\ event.pos >= Capacity * BucketBits) =>
          /\ event.oob
          /\ event.ret \in {"success", "failed", "not_found", "yes", "no"}

C17_Witness ==
    /\ event.op = "test" /\ event.pos = OutOfRange
    /\ event.oob /\ event.ret = "yes"

(* C18: once the collection has been destroyed, every bucket installed in   *)
(* a slot has been released.                                                *)
C18_TeardownReleasesBuckets ==
    ~alive => \A b \in Buckets : elements[b] # NULL => ~heap[elements[b]].live

(* C19: whenever the compare-and-swap of a set call fails, another thread   *)
(* has installed a bucket in the slot: the slot is not empty and holds a    *)
(* bucket other than the caller's candidate, and the value the caller then  *)
(* holds is that bucket, not null.                                          *)
C19_FailedInstallMeansInstalled ==
    [][\A t \in Threads :
          (th[t].pc = "set50" /\ th'[t].pc \notin {"set50", "idle"}) =>
              /\ elements[th[t].bucket] \notin {NULL, th[t].newelt}
              /\ th'[t].elt = elements[th[t].bucket]]_vars

(* C20: the bucket held by slot i has identity tag i, in every state that   *)
(* calls on valid positions reach, and no step changes the tag of an        *)
(* installed bucket.                                                        *)
C20_IdentityTag ==
    /\ [](\A b \in Buckets : elements[b] # NULL => heap[elements[b]].cardinality = b)
    /\ [][\A b \in Buckets :
            elements[b] # NULL =>
                heap'[elements[b]].cardinality = heap[elements[b]].cardinality]_vars

C20_Witness ==
    /\ event.op = "reset_all"
    /\ elements[0] # NULL /\ elements[1] # NULL
    /\ heap[elements[1]].cardinality = 1

(* C21: a slot becomes non-empty only in a step of a set call on a position *)
(* of that bucket, and only set calls allocate; a reset(pos) that finds the *)
(* slot empty returns success, a test(pos) that finds it empty returns no,  *)
(* and both leave every slot and every bucket as they were.                 *)
C21_OnlySetAllocates ==
    [][/\ \A b \in Buckets :
             (elements[b] = NULL /\ elements'[b] # NULL) =>
                 \E t \in Threads : /\ th[t].op = "set" /\ th'[t] # th[t]
                                    /\ th[t].pos \div BucketBits = b
       /\ Len(heap') # Len(heap) =>
             \E t \in Threads : th[t].op = "set" /\ th'[t] # th[t]
       /\ \A t \in Threads :
             (/\ th[t].pc \in {"rst103", "tst128"} /\ th'[t] # th[t]
              /\ elements[th[t].bucket] = NULL) =>
                 /\ event'.t = t
                 /\ event'.ret = IF th[t].op = "reset" THEN "success" ELSE "no"
                 /\ elements' = elements
                 /\ heap' = heap]_vars

C21_Witness ==
    /\ event.op = "test" /\ event.ret = "no"
    /\ last[event.pos] = "reset"
    /\ elements[event.pos \div BucketBits] = NULL
    /\ \E b \in Buckets : elements[b] # NULL

(* C22: a step of reset() changes nothing but words of installed buckets,   *)
(* which it stores to zero: it leaves every slot as it was, allocates and   *)
(* releases no bucket, changes no tag, and the call returns success.        *)
C22_BulkResetFrame ==
    [][\A t \in Threads :
          (th[t].op = "reset_all" /\ th'[t] # th[t]) =>
              /\ elements' = elements
              /\ Len(heap') = Len(heap)
              /\ \A o \in 1 .. Len(heap) :
                    /\ heap'[o].cardinality = heap[o].cardinality
                    /\ heap'[o].live = heap[o].live
                    /\ \A i \in WordIdx :
                          heap'[o].words[i] # heap[o].words[i] =>
                              /\ heap'[o].words[i] = 0
                              /\ \E b \in Buckets : elements[b] = o
              /\ event'.t = t => event'.ret = "success"]_vars

C22_Witness ==
    /\ event.op = "reset_all" /\ event.ret = "success"
    /\ elements[0] # NULL /\ elements[1] = NULL
    /\ heap[elements[0]].words = ZeroWords
    /\ \E o \in 1 .. Len(heap) :
          o # elements[0] /\ heap[o].live /\ heap[o].words # ZeroWords

(* the buckets the slots point to *)
Installed == {o \in 1 .. Len(heap) : \E b \in Buckets : elements[b] = o}

(* no call that reads or writes the bit at position p is under way *)
Quiet(p) == \A t \in Threads : th[t].pc # "idle" => ~Touches(th[t], p)

(* thread t takes the tag-mismatch branch of its call in this step *)
MismatchStep(t) ==
    /\ th[t].op \in {"set", "reset", "test"}
    /\ \/ th'[t].tries = th[t].tries + 1
       \/ event'.t = t /\ event'.ret \in {"failed", "not_found"}

(* C23: when several threads have called set on positions of a bucket that  *)
(* was empty and each built a candidate, exactly one candidate is installed *)
(* once a set has returned, and while no reset is called every position     *)
(* whose set returned success has its bit set in the installed bucket and   *)
(* reads yes.                                                               *)
C23_FirstAccessRace ==
    (noReset /\ Len(heap) >= 2) =>
        /\ (\E p \in Positions : last[p] \in SetLast) => Cardinality(Installed) = 1
        /\ \A p \in Positions : last[p] \in SetLast => Bit(p)
        /\ (event.op = "test" /\ last[event.pos] \in SetLast) => event.ret = "yes"

C23_Witness ==
    /\ noReset /\ Len(heap) = 2
    /\ event.op = "test" /\ event.ret = "yes" /\ event.pos = WordBits
    /\ Bit(5)
    /\ \E o \in 1 .. Len(heap) :
          o \notin Installed /\ heap[o].live /\ heap[o].words[1] # 0

(* C24: calls that flip different bits of one word do not interfere: once   *)
(* no call on a position is under way, and no set of it overlapped a reset  *)
(* of it, the bit has the value the last call on that position gave it,     *)
(* whatever calls on other positions of the word ran at the same time.      *)
C24_ConcurrentFlips ==
    \A p \in Positions :
        (Quiet(p) /\ ~(one[p] /\ zero[p])) => (Bit(p) <=> last[p] \in SetLast)

C24_Witness ==
    /\ event.op = "reset" /\ event.pos = 6 /\ event.ret = "success"
    /\ last[6] = "set_reset" /\ ~Bit(6)
    /\ last[5] = "none" /\ ~Bit(5)
    /\ \E t \in Threads : /\ th[t].op = "set" /\ th[t].pos = 5
                          /\ th[t].pc = "set65"

(* C25: a candidate that is not installed is reachable only through the     *)
(* newelt of the one thread that built it: every bucket a thread got from a *)
(* slot is installed, no two threads hold the same candidate, and a         *)
(* candidate that lost the install still holds just the bit it was built    *)
(* with.                                                                    *)
C25_CandidatePrivate ==
    /\ \A t \in Threads :
          /\ th[t].elt # NULL => th[t].elt \in Installed
          /\ th[t].newelt # NULL =>
                /\ th[t].newelt \notin Installed
                /\ \A u \in Threads \ {t} : th[u].newelt # th[t].newelt
    /\ \A o \in 1 .. Len(heap) :
          (heap[o].live /\ o \notin Installed) =>
              \E p \in Positions :
                  heap[o] = BitSetElement(RelBucket(p), RelIndex(p), RelOffset(p))

C25_Witness ==
    /\ \E o \in 1 .. Len(heap) :
          /\ heap[o].live /\ o \notin Installed
          /\ \A t \in Threads : th[t].newelt # o
    /\ \E t \in Threads : /\ th[t].op = "reset_all" /\ th[t].pc = "blk86"
                          /\ th[t].elt \in Installed

(* C26: in the step that makes a bucket visible in slot b, the bucket has   *)
(* tag b, the bit of the installing set's position is set and every other   *)
(* bit of every word is zero.                                               *)
C26_PublishedInitialised ==
    [][\A b \in Buckets :
          (elements[b] = NULL /\ elements'[b] # NULL) =>
              \E t \in Threads :
                  /\ th[t].op = "set" /\ th'[t] # th[t]
                  /\ heap'[elements'[b]] =
                        [cardinality |-> b,
                         words |-> [i \in WordIdx |->
                                      IF i = (th[t].pos % BucketBits) \div WordBits
                                      THEN 2 ^ (th[t].pos % WordBits) ELSE 0],
                         live |-> TRUE]
                  /\ th[t].pos \div BucketBits = b]_vars

C26_Witness ==
    /\ event.op = "set" /\ event.pos = BucketBits /\ event.ret = "success"
    /\ elements[1] # NULL
    /\ heap[elements[1]].cardinality = 1
    /\ heap[elements[1]].words = [i \in WordIdx |-> IF i = 0 THEN 1 ELSE 0]
    /\ last[BucketBits] = "set"

(* C27: for every pos, relocate yields bucket = pos >> BitsetWidth,         *)
(* sub = pos & (BucketBits - 1), word index = sub / WordBits and            *)
(* offset = sub % WordBits, and computing it changes no slot and no bucket. *)
C27_AddressDecomposition ==
    /\ [](calc.fn = "relocate" =>
            /\ calc.out.bucket = calc.arg \div BucketBits
            /\ calc.out.sub = calc.arg % BucketBits
            /\ calc.out.index = calc.out.sub \div WordBits
            /\ calc.out.offset = calc.out.sub % WordBits)
    /\ [][calc' # calc => (elements' = elements /\ heap' = heap /\ th' = th)]_vars

C27_Witness ==
    /\ calc.fn = "relocate" /\ calc.arg = 61
    /\ calc.out = [bucket |-> 3, sub |-> 13, index |-> 1, offset |-> 5]

C29_SingleBitFrame ==
    [][\A t \in Threads :
          /\ (th[t].op \in {"set", "reset"} /\ Running(th[t]) /\ th'[t] # th[t]) =>
                \A q \in (0 .. OutOfRange - 1) \ {th[t].pos} : Bit(q)' = Bit(q)
          /\ (th[t].op = "test" /\ Running(th[t]) /\ th'[t] # th[t]) =>
                /\ elements' = elements
                /\ heap' = heap]_vars

C29_Witness ==
    /\ event.op = "test" /\ event.pos = 6 /\ event.ret = "no"
    /\ last[6] = "set_reset"
    /\ Bit(5) /\ ~Bit(6) /\ Bit(WordBits)

(* C30 as stated: for the word types of 8, 16, 32 and 64 bits and every     *)
(* offset of the word, set and the constructor set the bit at the offset    *)
(* and no other, reset(pos) clears that bit and no other, and test reads    *)
(* that bit and no other.                                                   *)
C30_MaskIsOneBit ==
    /\ calc.fn = "set" => calc.out.new = calc.out.old \cup {calc.arg}
    /\ calc.fn = "reset" => calc.out.new = calc.out.old \ {calc.arg}
    /\ calc.fn = "test" => (calc.out.ret = "yes" <=> calc.arg \in calc.out.old)
    /\ calc.fn = "construct" => calc.out.new = {calc.arg}

(* C31: every pos equals (bucket << BitsetWidth) + word * WordBits + offset *)
(* of the triple relocate yields for it, with word below the number of      *)
(* words of a bucket and offset below WordBits; no other position is        *)
(* mapped to the same triple.                                               *)
C31_DecompositionBijective ==
    calc.fn = "relocate" =>
        /\ calc.arg = calc.out.bucket * (2 ^ BitsetWidth)
                        + calc.out.index * WordBits + calc.out.offset
        /\ calc.out.index >= 0 /\ calc.out.index < NWords
        /\ calc.out.offset >= 0 /\ calc.out.offset < WordBits
        /\ \A q \in 0 .. MaxPos :
              relocate(q) = [bucket |-> calc.out.bucket, index |-> calc.out.index,
                             offset |-> calc.out.offset] => q = calc.arg

C31_Witness ==
    /\ calc.fn = "relocate" /\ calc.arg = 47
    /\ calc.out.bucket = 2 /\ calc.out.index = 1 /\ calc.out.offset = 7

(* C32: while no reset(pos) and no reset() has been called, a test(pos)     *)
(* that begins after some test(pos) returned yes returns yes too, also      *)
(* when other calls run at the same time, and no step clears a bit that is  *)
(* set.                                                                     *)
C32_MonotoneWithoutReset ==
    /\ []((noReset /\ event.op = "test" /\ mono.after[event.t]) => event.ret = "yes")
    /\ [][noReset' => \A q \in 0 .. OutOfRange - 1 : Bit(q) => Bit(q)']_vars

C32_Witness ==
    /\ noReset /\ event.op = "test" /\ event.pos = 6 /\ event.ret = "yes"
    /\ mono.after[event.t] /\ mono.seen = {6}
    /\ Bit(6) /\ budget = 0

(* C33 as stated: the recomputation relocate(bucket << BitsetWidth, ...) of *)
(* a retry yields the bucket id, the word index and the bit offset that     *)
(* relocate derived from pos.                                               *)
C33_RetryKeepsAddress ==
    calc.fn = "retry" =>
        /\ calc.out.bucket = RelBucket(calc.arg)
        /\ calc.out.index = RelIndex(calc.arg)
        /\ calc.out.offset = RelOffset(calc.arg)

(* C34 as stated: at any time the bucket objects in existence are at most   *)
(* as many as the non-empty slots plus the set calls that have not          *)
(* returned.                                                                *)
C34_ObjectsBounded ==
    Cardinality({o \in 1 .. Len(heap) : heap[o].live})
        <= Cardinality({b \in Buckets : elements[b] # NULL})
           + Cardinality({t \in Threads : th[t].op = "set" /\ th[t].pc # "idle"})

====
